---- MODULE Spec2Model ----
(***************************************************************************)
(* A model of the upload orchestration of instagram_youtube_automation:    *)
(*   - upload_video           (src/instauto/youtube_uploader.py)           *)
(*   - process_profile, main  (src/main.py)                                *)
(* The platform (YouTube) is the environment: each transfer attempt gets   *)
(* one response drawn from Responses.  Texts (the error bodies) are        *)
(* modelled by the two substrings the code searches them for.              *)
(***************************************************************************)
EXTENDS Integers, Sequences, FiniteSets, TLC

(***************************************************************************)
(* Program constants                                                       *)
(***************************************************************************)
MAX_RETRIES == 3
RETRY_DELAYS == <<5, 15, 30>>
MAX_UPLOADS_PER_DAY == 5
UPLOAD_SPACING_SECONDS == 60

(***************************************************************************)
(* Bounds of the model                                                     *)
(***************************************************************************)
\* platform identifiers a single upload_video call may be handed
MaxVideoIds == 2

\* Python's None for a video id / an absent response id ("" is falsy too)
NoId == 0
\* the video id the dry run returns ("TEST_MODE")
TEST_MODE_ID == -1
VideoIds == 1..MaxVideoIds

\* result["error"]: None, or a text, kept as the two substrings it is
\* searched for: 'uploadLimitExceeded' and 'The user has exceeded the
\* number of videos they may upload'
NoError == [present |-> FALSE, limitText |-> FALSE, exceededText |-> FALSE]
ErrorText(l, x) == [present |-> TRUE, limitText |-> l, exceededText |-> x]

(***************************************************************************)
(* The platform's answers to one transfer attempt                          *)
(***************************************************************************)
\* the chunk loop ran to a final response; id = response.get("id");
\* hd = what wait_for_hd_processing would report for that video; chunks =
\* the calls of next_chunk() that returned progress and no response
ProgressChunks == {0, 2}
FinalResponses ==
    [kind : {"final"}, id : VideoIds \cup {NoId}, hd : BOOLEAN,
     status : {0}, limitText : {FALSE}, exceededText : {FALSE},
     chunks : ProgressChunks]
\* googleapiclient HttpError; status 0 stands for e.resp being None
HttpErrors ==
    [kind : {"http"}, id : {NoId}, hd : {FALSE},
     status : {0, 400, 500}, limitText : BOOLEAN, exceededText : BOOLEAN,
     chunks : {0}]
\* any other exception (network, OS); str(e) is arbitrary text
OtherErrors ==
    [kind : {"exc"}, id : {NoId}, hd : {FALSE},
     status : {0}, limitText : BOOLEAN, exceededText : {FALSE},
     chunks : {0}]
Responses == FinalResponses \cup HttpErrors \cup OtherErrors

(***************************************************************************)
(* upload_video                                                            *)
(***************************************************************************)
\* the result dict before the first attempt
ResultInit ==
    [success |-> FALSE, hd_ready |-> FALSE, error |-> NoError,
     retries |-> 0, test_only |-> FALSE]

\* the state of one call: pc is "loop" while the for loop runs, "returned"
\* after a return, "raised" after the configuration error; attempt is the
\* loop variable; sleeps lists the time.sleep calls; log the responses
CallInit ==
    [pc |-> "loop", attempt |-> 0, result |-> ResultInit, video_id |-> NoId,
     sleeps |-> <<>>, log |-> <<>>]

\* the 400 test of both except-branches: e.resp is not None and status == 400
IsStatus400(resp) == resp.status = 400

\* the quota patterns searched in reason_text
MatchesQuotaPattern(resp) == resp.limitText \/ resp.exceededText

\* time.sleep(RETRY_DELAYS[attempt - 1]) when attempt > 0
SleepsMutNoGuard(st) == Append(st.sleeps, RETRY_DELAYS[st.attempt + 1])
SleepsBefore(st) ==
    IF st.attempt > 0 THEN Append(st.sleeps, RETRY_DELAYS[st.attempt])
    ELSE st.sleeps

\* falling out of an except-branch: the next iteration, or, after the last
\* one, "Upload failed after MAX_RETRIES attempts" and return None, result
NextIteration(st) ==
    IF st.attempt + 1 < MAX_RETRIES
    THEN [st EXCEPT !.attempt = st.attempt + 1]
    ELSE [st EXCEPT !.attempt = st.attempt + 1, !.pc = "returned",
                    !.video_id = NoId]

\* except Exception (also the RuntimeError of a missing id)
OnException(st, l, x) ==
    NextIteration([st EXCEPT !.result.error = ErrorText(l, x),
                             !.result.retries = st.attempt + 1])

\* except HttpError
OnHttpErrorMutRetryAll(st, resp) ==
    NextIteration([st EXCEPT
        !.result.error = ErrorText(resp.limitText, resp.exceededText),
        !.result.retries = st.attempt + 1])
OnHttpErrorMutRetryBad(st, resp) ==
    LET s1 == [st EXCEPT
                 !.result.error = ErrorText(resp.limitText, resp.exceededText),
                 !.result.retries = st.attempt + 1]
    IN  IF IsStatus400(resp) /\ MatchesQuotaPattern(resp)
        THEN [s1 EXCEPT !.pc = "returned", !.video_id = NoId]
        ELSE NextIteration(s1)
OnHttpError(st, resp) ==
    LET s1 == [st EXCEPT
                 !.result.error = ErrorText(resp.limitText, resp.exceededText),
                 !.result.retries = st.attempt + 1]
    IN  IF IsStatus400(resp) /\ MatchesQuotaPattern(resp)
        THEN [s1 EXCEPT !.pc = "returned", !.video_id = NoId]
        ELSE IF IsStatus400(resp)
        THEN [s1 EXCEPT !.pc = "returned", !.video_id = NoId]
        ELSE NextIteration(s1)

\* the chunk loop ended with a final response
OnFinalResponseMutNoIdCheck(st, resp, wait_for_hd) ==
    [st EXCEPT !.pc = "returned", !.video_id = resp.id,
               !.result.success = TRUE,
               !.result.hd_ready = IF wait_for_hd THEN resp.hd ELSE FALSE]
OnFinalResponseMutCountsAttempt(st, resp, wait_for_hd) ==
    IF resp.id = NoId
    THEN OnException(st, FALSE, FALSE)
    ELSE [st EXCEPT !.pc = "returned", !.video_id = resp.id,
                    !.result.success = TRUE,
                    !.result.retries = st.attempt + 1,
                    !.result.hd_ready = IF wait_for_hd THEN resp.hd ELSE FALSE]
OnFinalResponseMutResetRetries(st, resp, wait_for_hd) ==
    IF resp.id = NoId
    THEN OnException(st, FALSE, FALSE)
    ELSE [st EXCEPT !.pc = "returned", !.video_id = resp.id,
                    !.result.success = TRUE, !.result.retries = 0,
                    !.result.hd_ready = IF wait_for_hd THEN resp.hd ELSE FALSE]
OnFinalResponse(st, resp, wait_for_hd) ==
    IF resp.id = NoId
    THEN \* raise RuntimeError("Upload succeeded but no video ID returned")
         OnException(st, FALSE, FALSE)
    ELSE [st EXCEPT !.pc = "returned", !.video_id = resp.id,
                    !.result.success = TRUE,
                    !.result.hd_ready = IF wait_for_hd THEN resp.hd ELSE FALSE]

\* one iteration of for attempt in range(MAX_RETRIES) with the platform
\* answering resp
AttemptStep(st, resp, wait_for_hd) ==
    LET s1 == [st EXCEPT !.sleeps = SleepsBefore(st),
                         !.log = Append(st.log, resp)]
    IN  CASE resp.kind = "final" -> OnFinalResponse(s1, resp, wait_for_hd)
          [] resp.kind = "http"  -> OnHttpError(s1, resp)
          [] OTHER -> OnException(s1, resp.limitText, resp.exceededText)

\* lines 224-225: service is None and client_secrets_file is None; the test
\* precedes the dry run and the loop
ConfigMissingMutAfterDryRun(a) ==
    ~a.service /\ ~a.client_secrets_file /\ ~a.test_mode
ConfigMissing(a) == ~a.service /\ ~a.client_secrets_file

\* the dry run: file is "ok", "nostream" (has_stream() false) or "error"
\* (MediaFileUpload raised)
TestModeReturnMutUploads(st, file) ==
    IF file = "ok"
    THEN [st EXCEPT !.pc = "returned", !.video_id = 1,
                    !.log = <<[kind |-> "final", id |-> 1, hd |-> TRUE,
                               status |-> 0, limitText |-> FALSE,
                               exceededText |-> FALSE, chunks |-> 0]>>,
                    !.result = [ResultInit EXCEPT !.success = TRUE]]
    ELSE [st EXCEPT !.pc = "returned", !.video_id = NoId,
                    !.result = [ResultInit EXCEPT
                                   !.error = ErrorText(FALSE, FALSE),
                                   !.test_only = TRUE]]
TestModeReturn(st, file) ==
    IF file = "ok"
    THEN [st EXCEPT !.pc = "returned", !.video_id = TEST_MODE_ID,
                    !.result = [ResultInit EXCEPT !.success = TRUE,
                                                  !.test_only = TRUE]]
    ELSE [st EXCEPT !.pc = "returned", !.video_id = NoId,
                    !.result = [ResultInit EXCEPT
                                   !.error = ErrorText(FALSE, FALSE),
                                   !.test_only = TRUE]]

\* the whole loop on the answers rs (as many as the call consumes)
RECURSIVE RunAttempts(_, _, _)
RunAttempts(st, rs, wait_for_hd) ==
    IF st.pc # "loop" \/ rs = <<>> THEN st
    ELSE RunAttempts(AttemptStep(st, Head(rs), wait_for_hd), Tail(rs), wait_for_hd)


(***************************************************************************)
(* What main.py is run on: the usernames, the posts the fetch returns for  *)
(* a profile and their media files.  Every profile has PostsPerProfile     *)
(* posts of MediaPerPost files each; a file is named by its index.         *)
(***************************************************************************)
PostsPerProfile == 3
MediaPerPost == 3
\* process_profile calls in one behaviour (over all invocations of main)
MaxCalls == 2
\* faults in one behaviour: failed attempts, uploads whose HD processing
\* is not confirmed, and terminations of the process
MaxFaults == 1

Usernames == {"a", "b"}
Posts == 1..PostsPerProfile
Media == 1..MediaPerPost

\* media.suffix.lower() in {".mp4", ".mov", ".avi", ".mkv"}: the first file
\* of the last post is an image
IsVideo(k, m) == ~(k = PostsPerProfile /\ m = 1)

\* summarizer.generate_title_description(post.caption): in profile "b" the
\* second post has the first sentence of the first one, and so its title
GenTitle(u, k) == IF u = "b" /\ k = 2 THEN 1 ELSE k
GenDescription(u, k) == k

\* a metadata file of the profile directory; valid: json.load gives a dict
NoFile ==
    [exists |-> FALSE, valid |-> TRUE, title |-> 0, description |-> 0,
     uploaded |-> FALSE, video_ids |-> <<>>, uploads |-> <<>>,
     upload_details |-> {}, first_seen |-> 0]
\* a file that cannot be read or does not hold valid JSON
Unreadable == [NoFile EXCEPT !.exists = TRUE, !.valid = FALSE]

\* lines 131-140: existing_meta as loaded from the post's own file, None
\* (NoFile) when there is no file or reading it raises
LoadOwn(dir, k) == IF dir[k].exists /\ dir[k].valid THEN dir[k] ELSE NoFile

\* for meta_file in profile_dir.glob("**/*meta.json"): another record with
\* the candidate's title or description
HasDuplicateMutAnd(dir, k, title, description) ==
    \E j \in Posts :
        /\ j # k
        /\ dir[j].exists
        /\ dir[j].valid
        /\ (dir[j].title = title /\ dir[j].description = description)
HasDuplicateMutFailSkips(dir, k, title, description) ==
    \E j \in Posts :
        /\ j # k
        /\ dir[j].exists
        /\ \/ ~dir[j].valid
           \/ dir[j].title = title
           \/ dir[j].description = description
HasDuplicate(dir, k, title, description) ==
    \E j \in Posts :
        /\ j # k
        /\ dir[j].exists
        /\ dir[j].valid
        /\ (dir[j].title = title \/ dir[j].description = description)

\* existing_meta.get("uploaded") of the post's own file
AlreadyUploadedMutNever(dir, k) == FALSE
AlreadyUploaded(dir, k) == LoadOwn(dir, k).exists /\ LoadOwn(dir, k).uploaded

\* the meta dict of lines 166-182, the prior uploads merged in
\* (now stands for datetime.now(): the number of the process_profile call)
NewMetaMutFresh(dir, k, title, description, now) ==
    [exists |-> TRUE, valid |-> TRUE, title |-> title,
     description |-> description, uploaded |-> FALSE, video_ids |-> <<>>,
     uploads |-> <<>>, upload_details |-> {}, first_seen |-> now]
NewMeta(dir, k, title, description, now) ==
    [exists |-> TRUE, valid |-> TRUE, title |-> title,
     description |-> description, uploaded |-> FALSE,
     video_ids |-> LoadOwn(dir, k).video_ids,
     uploads |-> LoadOwn(dir, k).uploads,
     upload_details |-> {}, first_seen |-> now]

\* media.name in meta["uploads"]
InSeqMutOnlyFirst(v, s) == Len(s) > 0 /\ s[1] = v
InSeqMutNever(x, s) == FALSE
InSeq(x, s) == \E i \in 1..Len(s) : s[i] = x

\* lines 251-259: the successful upload recorded in meta; of the entry of
\* upload_details the file name and the video id are kept (its timestamp,
\* HD flag and retry count are copied from the result and read nowhere)
RecordUploadMutIdOnly(meta, m, c) ==
    [meta EXCEPT !.video_ids = Append(meta.video_ids, c.video_id)]
RecordUpload(meta, m, c) ==
    [meta EXCEPT
        !.video_ids = Append(meta.video_ids, c.video_id),
        !.uploads = Append(meta.uploads, m),
        !.upload_details =
            {d \in meta.upload_details : d.name # m} \cup
            {[name |-> m, video_id |-> c.video_id]}]

\* "uploadLimitExceeded" in str(upload_details.get("error", ""))
ErrorNamesLimit(c) == c.result.error.present /\ c.result.error.limitText

\* the cap test of the post loop
CapReached(n) == n >= MAX_UPLOADS_PER_DAY

\* a response that is no fault: a final response with an id, HD confirmed
CleanResponse(id) ==
    [kind |-> "final", id |-> id, hd |-> TRUE, status |-> 0,
     limitText |-> FALSE, exceededText |-> FALSE, chunks |-> 0]
\* the faults the platform may answer an attempt with, id being the
\* identifier it would assign
FaultResponses(id) ==
    {[CleanResponse(id) EXCEPT !.hd = FALSE],
     [CleanResponse(id) EXCEPT !.id = NoId, !.hd = FALSE]}
    \cup HttpErrors \cup OtherErrors
Faults(log) == Cardinality({i \in 1..Len(log) : ~(log[i].kind = "final" /\ log[i].id # NoId /\ log[i].hd)})

\* the answers to the attempts of one call with at most n faults
AnswerSeqs(n, id) ==
    LET F == FaultResponses(id)
        js == 0..(IF n < MAX_RETRIES THEN n ELSE MAX_RETRIES)
    IN  UNION {{fs \o <<CleanResponse(id)>> : fs \in [1..j -> F]} : j \in js}

\* how upload_video(service=service, wait_for_hd=True) can return when the
\* platform has at most n faults left
CallOutcomes(n, id, test_mode) ==
    IF test_mode
    THEN {TestModeReturn(CallInit, f) : f \in {"ok", "nostream", "error"}}
    ELSE {RunAttempts(CallInit, rs, TRUE) : rs \in AnswerSeqs(n, id)}

\* line 283: meta["uploaded"] after the media loop
FinalUploadedMutAlways(meta) == TRUE
FinalUploaded(meta) == meta.video_ids # <<>>

\* lines 262-264: the incremental write of the post's metadata file
WriteIncrementalMutBatched(d, u, j, rec) == d
WriteIncremental(d, u, j, rec) == [d EXCEPT ![u][j] = rec]

\* line 269: the spacing sleep is taken while the counter is under the cap
SleepsAfter(n) == n < MAX_UPLOADS_PER_DAY

VARIABLES
    call,     \* the running / the last upload_video call (see CallInit)
    args,     \* its arguments: service, client_secrets_file, wait_for_hd, test_mode
    r_pc,     \* where main.py is: "shell", "main", "post", "media", "sleep", "post_end"
    cli,      \* the command line of the invocation: upload_videos, test_mode
    upload_limit_reached,   \* service_params["_upload_limit_reached"]
    username, \* the profile process_profile works on
    k,        \* the post the post loop is at
    m,        \* the media file the media loop is at
    uploads_this_run,
    upload_for_this_post,
    existing_meta,  \* the post's own metadata as loaded (NoFile: None)
    meta,     \* the meta dict of the post
    dirs,     \* per profile directory, per post, the metadata file
    calls,    \* process_profile calls so far
    faults,   \* platform faults and terminations so far
    run_uploads,    \* uploads recorded since the invocation began
    engine_calls,   \* upload_video invocations since the invocation began
    engine_after_halt,  \* an upload_video invocation came after the halt flag was set
    slept,    \* seconds of spacing sleep since the last upload_video invocation
    invoked,  \* the files of the post upload_video was invoked for in this call
    platform, \* <<username, post, file>> of the transfers the platform completed
    last,     \* the step of main.py taken last
    iter,     \* one pass of the media loop taken on its own (see IterIdle)
    hd,       \* a wait_for_hd_processing call taken on its own (see WaitIdle)
    fn        \* a call of a pure function: its name, input and output

uvars == <<call, args>>
rvars == <<r_pc, cli, upload_limit_reached, username, k, m, uploads_this_run,
           upload_for_this_post, existing_meta, meta, dirs, calls, faults,
           run_uploads, engine_calls, engine_after_halt, slept, invoked,
           platform, last>>
xvars == <<iter, hd, fn>>
vars == <<call, args, r_pc, cli, upload_limit_reached, username, k, m,
          uploads_this_run, upload_for_this_post, existing_meta, meta, dirs,
          calls, faults, run_uploads, engine_calls, engine_after_halt, slept,
          invoked, platform, last, iter, hd, fn>>

CallArgs ==
    [service : BOOLEAN, client_secrets_file : BOOLEAN,
     wait_for_hd : BOOLEAN, test_mode : BOOLEAN]
\* what process_profile passes: service=service, wait_for_hd=True
RunArgs(test_mode) ==
    [service |-> TRUE, client_secrets_file |-> FALSE, wait_for_hd |-> TRUE,
     test_mode |-> test_mode]

EmptyDirs == [u \in Usernames |-> [j \in Posts |-> NoFile]]

RunIdle ==
    /\ r_pc = "shell"
    /\ cli = [upload_videos |-> FALSE, test_mode |-> FALSE]
    /\ upload_limit_reached = FALSE
    /\ username = "a"
    /\ k = 1
    /\ m = 1
    /\ uploads_this_run = 0
    /\ upload_for_this_post = FALSE
    /\ existing_meta = NoFile
    /\ meta = NoFile
    /\ dirs = EmptyDirs
    /\ calls = 0
    /\ faults = 0
    /\ run_uploads = 0
    /\ engine_calls = 0
    /\ engine_after_halt = FALSE
    /\ slept = 0
    /\ invoked = {}
    /\ platform = {}
    /\ last = "none"

IterIdle == [pc |-> "idle"]
WaitIdle == [pc |-> "idle"]
FnIdle == [name |-> "none"]
AuxIdle == iter = IterIdle /\ hd = WaitIdle /\ fn = FnIdle

(***************************************************************************)
(* upload_video on its own, attempt by attempt                             *)
(***************************************************************************)
InitUpload ==
    /\ args \in CallArgs
    /\ call = [CallInit EXCEPT !.pc = "entry"]
    /\ RunIdle
    /\ AuxIdle

\* lines 223-229: neither a service nor a client secrets file
UploadConfigError ==
    /\ call.pc = "entry"
    /\ ConfigMissing(args)
    /\ call' = [call EXCEPT !.pc = "raised"]
    /\ UNCHANGED args
    /\ UNCHANGED <<rvars, xvars>>

\* lines 245-279
UploadTestMode ==
    /\ call.pc = "entry"
    /\ ~ConfigMissing(args)
    /\ args.test_mode
    /\ \E file \in {"ok", "nostream", "error"} :
          call' = TestModeReturn(call, file)
    /\ UNCHANGED args
    /\ UNCHANGED <<rvars, xvars>>

\* lines 281-288
UploadEnterLoop ==
    /\ call.pc = "entry"
    /\ ~ConfigMissing(args)
    /\ ~args.test_mode
    /\ call' = [call EXCEPT !.pc = "loop"]
    /\ UNCHANGED args
    /\ UNCHANGED <<rvars, xvars>>

\* lines 290-376
UploadAttempt ==
    /\ call.pc = "loop"
    /\ \E resp \in Responses : call' = AttemptStep(call, resp, args.wait_for_hd)
    /\ UNCHANGED args
    /\ UNCHANGED <<rvars, xvars>>

NextUpload ==
    \/ UploadConfigError
    \/ UploadTestMode
    \/ UploadEnterLoop
    \/ UploadAttempt

SpecUpload == InitUpload /\ [][NextUpload]_vars

(***************************************************************************)
(* main and process_profile                                                *)
(***************************************************************************)
Init ==
    /\ call = [CallInit EXCEPT !.pc = "entry"]
    /\ args = RunArgs(FALSE)
    /\ RunIdle
    /\ AuxIdle

\* the process is gone: nothing of its memory is left
ProcessExit ==
    /\ r_pc' = "shell"
    /\ call' = [CallInit EXCEPT !.pc = "entry"]
    /\ args' = RunArgs(FALSE)
    /\ cli' = [upload_videos |-> FALSE, test_mode |-> FALSE]
    /\ upload_limit_reached' = FALSE
    /\ username' = "a"
    /\ k' = 1
    /\ m' = 1
    /\ uploads_this_run' = 0
    /\ upload_for_this_post' = FALSE
    /\ existing_meta' = NoFile
    /\ meta' = NoFile
    /\ run_uploads' = 0
    /\ engine_calls' = 0
    /\ engine_after_halt' = FALSE
    /\ slept' = 0
    /\ invoked' = {}

\* main, lines 403-441: a new invocation of the program; service_params is
\* built anew, without "_upload_limit_reached"
MainStart ==
    /\ r_pc = "shell"
    /\ calls < MaxCalls
    /\ \E uv \in BOOLEAN, tm \in BOOLEAN :
          /\ cli' = [upload_videos |-> uv, test_mode |-> tm]
          /\ args' = RunArgs(tm)
    /\ upload_limit_reached' = FALSE
    /\ run_uploads' = 0
    /\ engine_calls' = 0
    /\ engine_after_halt' = FALSE
    /\ r_pc' = "main"
    /\ call' = [CallInit EXCEPT !.pc = "entry"]
    /\ last' = "MainStart"
    /\ UNCHANGED xvars
    /\ UNCHANGED <<username, k, m, uploads_this_run, upload_for_this_post,
                   existing_meta, meta, dirs, calls, faults, slept, invoked,
                   platform>>

\* main, lines 442-454, and process_profile, lines 77-106: the next
\* username of the list (a username may be listed twice)
StartProfile ==
    /\ r_pc = "main"
    /\ calls < MaxCalls
    /\ \E u \in Usernames : username' = u
    /\ calls' = calls + 1
    /\ uploads_this_run' = 0
    /\ k' = 1
    /\ m' = 1
    /\ meta' = NoFile
    /\ existing_meta' = NoFile
    /\ upload_for_this_post' = FALSE
    /\ invoked' = {}
    /\ r_pc' = "post"
    /\ last' = "StartProfile"
    /\ UNCHANGED xvars
    /\ UNCHANGED <<call, args, cli, upload_limit_reached, dirs, faults,
                   run_uploads, engine_calls, engine_after_halt, slept,
                   platform>>

\* main: the list of usernames is exhausted, the process exits
MainExit ==
    /\ r_pc = "main"
    /\ calls > 0
    /\ last' = "MainExit"
    /\ UNCHANGED xvars
    /\ ProcessExit
    /\ UNCHANGED <<dirs, calls, faults, platform>>

\* lines 112-114: the daily limit is reached, break out of the post loop
CapBreak ==
    /\ r_pc = "post"
    /\ k <= PostsPerProfile
    /\ CapReached(uploads_this_run)
    /\ r_pc' = "main"
    /\ last' = "CapBreak"
    /\ UNCHANGED xvars
    /\ UNCHANGED <<call, args, cli, upload_limit_reached, username, k, m,
                   uploads_this_run, upload_for_this_post, existing_meta, meta,
                   dirs, calls, faults, run_uploads, engine_calls,
                   engine_after_halt, slept, invoked, platform>>

\* the post loop has visited every post: process_profile returns
ProfileEnd ==
    /\ r_pc = "post"
    /\ k > PostsPerProfile
    /\ r_pc' = "main"
    /\ last' = "ProfileEnd"
    /\ UNCHANGED xvars
    /\ UNCHANGED <<call, args, cli, upload_limit_reached, username, k, m,
                   uploads_this_run, upload_for_this_post, existing_meta, meta,
                   dirs, calls, faults, run_uploads, engine_calls,
                   engine_after_halt, slept, invoked, platform>>

\* lines 130-138: the post's own metadata marks it uploaded
SkipUploaded ==
    /\ r_pc = "post"
    /\ k <= PostsPerProfile
    /\ ~CapReached(uploads_this_run)
    /\ AlreadyUploaded(dirs[username], k)
    /\ k' = k + 1
    /\ upload_for_this_post' = (cli.upload_videos /\ ~upload_limit_reached)
    /\ existing_meta' = LoadOwn(dirs[username], k)
    /\ last' = "SkipUploaded"
    /\ UNCHANGED xvars
    /\ UNCHANGED <<call, args, r_pc, cli, upload_limit_reached, username, m,
                   uploads_this_run, meta, dirs, calls, faults, run_uploads,
                   engine_calls, engine_after_halt, slept, invoked, platform>>

\* lines 142-158: duplicate content in another metadata file
SkipDuplicate ==
    /\ r_pc = "post"
    /\ k <= PostsPerProfile
    /\ ~CapReached(uploads_this_run)
    /\ ~AlreadyUploaded(dirs[username], k)
    /\ HasDuplicate(dirs[username], k, GenTitle(username, k),
                    GenDescription(username, k))
    /\ k' = k + 1
    /\ upload_for_this_post' = (cli.upload_videos /\ ~upload_limit_reached)
    /\ existing_meta' = LoadOwn(dirs[username], k)
    /\ last' = "SkipDuplicate"
    /\ UNCHANGED xvars
    /\ UNCHANGED <<call, args, r_pc, cli, upload_limit_reached, username, m,
                   uploads_this_run, meta, dirs, calls, faults, run_uploads,
                   engine_calls, engine_after_halt, slept, invoked, platform>>

\* lines 115-189: the post is processed; with uploads on, the media loop
\* is entered
BeginPost ==
    /\ r_pc = "post"
    /\ k <= PostsPerProfile
    /\ ~CapReached(uploads_this_run)
    /\ ~AlreadyUploaded(dirs[username], k)
    /\ ~HasDuplicate(dirs[username], k, GenTitle(username, k),
                     GenDescription(username, k))
    /\ upload_for_this_post' = (cli.upload_videos /\ ~upload_limit_reached)
    /\ existing_meta' = LoadOwn(dirs[username], k)
    /\ meta' = NewMeta(dirs[username], k, GenTitle(username, k),
                       GenDescription(username, k), calls)
    /\ m' = 1
    /\ invoked' = {}
    /\ r_pc' = IF upload_for_this_post' THEN "media" ELSE "post_end"
    /\ last' = "BeginPost"
    /\ UNCHANGED xvars
    /\ UNCHANGED <<call, args, cli, upload_limit_reached, username, k,
                   uploads_this_run, dirs, calls, faults, run_uploads,
                   engine_calls, engine_after_halt, slept, platform>>

\* lines 190-201: not a video, or a filename already in meta["uploads"]
MediaSkip ==
    /\ r_pc = "media"
    /\ m <= MediaPerPost
    /\ ~IsVideo(k, m) \/ InSeq(m, meta.uploads)
    /\ m' = m + 1
    /\ last' = "MediaSkip"
    /\ UNCHANGED xvars
    /\ UNCHANGED <<call, args, r_pc, cli, upload_limit_reached, username, k,
                   uploads_this_run, upload_for_this_post, existing_meta, meta,
                   dirs, calls, faults, run_uploads, engine_calls,
                   engine_after_halt, slept, invoked, platform>>

\* lines 221-266 and 269: upload_video is called for the file and its
\* result handled (upload_video raises nothing when it is given a service,
\* so the except-branches of lines 272-280 are not taken)
MediaUpload ==
    /\ r_pc = "media"
    /\ m <= MediaPerPost
    /\ IsVideo(k, m) /\ ~InSeq(m, meta.uploads)
    /\ \E c \in CallOutcomes(MaxFaults - faults, engine_calls + 1, cli.test_mode) :
          /\ call' = c
          /\ faults' = faults + Faults(c.log)
          /\ engine_calls' = engine_calls + 1
          /\ engine_after_halt' = (engine_after_halt \/ upload_limit_reached)
          /\ invoked' = invoked \cup {m}
          /\ slept' = 0
          /\ IF ~c.result.success
             THEN /\ IF ErrorNamesLimit(c)
                     THEN upload_limit_reached' = TRUE /\ r_pc' = "post_end"
                          /\ m' = m
                     ELSE upload_limit_reached' = upload_limit_reached
                          /\ r_pc' = r_pc /\ m' = m + 1
                  /\ UNCHANGED <<meta, dirs, uploads_this_run, run_uploads,
                                 platform>>
             ELSE IF c.video_id = NoId \/ c.video_id = TEST_MODE_ID
             THEN /\ m' = m + 1
                  /\ UNCHANGED <<meta, dirs, uploads_this_run, run_uploads,
                                 upload_limit_reached, r_pc, platform>>
             ELSE /\ meta' = RecordUpload(meta, m, c)
                  /\ dirs' = WriteIncremental(dirs, username, k, meta')
                  /\ uploads_this_run' = uploads_this_run + 1
                  /\ run_uploads' = run_uploads + 1
                  /\ platform' = platform \cup {<<username, k, m>>}
                  /\ r_pc' = IF SleepsAfter(uploads_this_run')
                             THEN "sleep" ELSE "media"
                  /\ m' = m + 1
                  /\ UNCHANGED upload_limit_reached
    /\ last' = "MediaUpload"
    /\ UNCHANGED xvars
    /\ UNCHANGED <<args, cli, username, k, upload_for_this_post,
                   existing_meta, calls>>

\* line 270: time.sleep(UPLOAD_SPACING_SECONDS)
SpacingSleep ==
    /\ r_pc = "sleep"
    /\ slept' = slept + UPLOAD_SPACING_SECONDS
    /\ r_pc' = "media"
    /\ last' = "SpacingSleep"
    /\ UNCHANGED xvars
    /\ UNCHANGED <<call, args, cli, upload_limit_reached, username, k, m,
                   uploads_this_run, upload_for_this_post, existing_meta, meta,
                   dirs, calls, faults, run_uploads, engine_calls,
                   engine_after_halt, invoked, platform>>

\* lines 281-289: the media loop is over (or was not entered): the final
\* metadata is written and the post loop goes on
FinishPost ==
    /\ \/ r_pc = "post_end"
       \/ r_pc = "media" /\ m > MediaPerPost
    /\ meta' = IF upload_for_this_post
               THEN [meta EXCEPT !.uploaded = FinalUploaded(meta)]
               ELSE meta
    /\ dirs' = [dirs EXCEPT ![username][k] = meta']
    /\ k' = k + 1
    /\ r_pc' = "post"
    /\ last' = "FinishPost"
    /\ UNCHANGED xvars
    /\ UNCHANGED <<call, args, cli, upload_limit_reached, username, m,
                   uploads_this_run, upload_for_this_post, existing_meta,
                   calls, faults, run_uploads, engine_calls,
                   engine_after_halt, slept, invoked, platform>>

\* the process is terminated (killed, interrupted) between two steps of
\* process_profile; nothing is written
Terminate ==
    /\ r_pc \in {"post", "media", "sleep", "post_end"}
    /\ faults < MaxFaults
    /\ faults' = faults + 1
    /\ last' = "Terminate"
    /\ UNCHANGED xvars
    /\ ProcessExit
    /\ UNCHANGED <<dirs, calls, platform>>

\* the process is terminated inside upload_video (lines 326-338), after the
\* transfer ran to a final response with an id and before the call
\* returns, e.g. in wait_for_hd_processing
TerminateInUpload ==
    /\ r_pc = "media"
    /\ m <= MediaPerPost
    /\ IsVideo(k, m) /\ ~InSeq(m, meta.uploads)
    /\ ~cli.test_mode
    /\ faults < MaxFaults
    /\ faults' = faults + 1
    /\ platform' = platform \cup {<<username, k, m>>}
    /\ last' = "TerminateInUpload"
    /\ UNCHANGED xvars
    /\ ProcessExit
    /\ UNCHANGED <<dirs, calls>>

\* between two invocations a metadata file is damaged (a write that a
\* termination tore, or damage from outside): lines 133-135 will raise on it
CorruptFile ==
    /\ r_pc = "shell"
    /\ faults < MaxFaults
    /\ faults' = faults + 1
    /\ \E u \in Usernames, j \in Posts :
          /\ dirs[u][j].exists
          /\ dirs[u][j].valid
          /\ dirs' = [dirs EXCEPT ![u][j] = Unreadable]
    /\ last' = "CorruptFile"
    /\ UNCHANGED xvars
    /\ UNCHANGED <<call, args, r_pc, cli, upload_limit_reached, username, k,
                   m, uploads_this_run, upload_for_this_post, existing_meta,
                   meta, calls, run_uploads, engine_calls, engine_after_halt,
                   slept, invoked, platform>>

Next ==
    \/ MainStart
    \/ StartProfile
    \/ MainExit
    \/ CapBreak
    \/ ProfileEnd
    \/ SkipUploaded
    \/ SkipDuplicate
    \/ BeginPost
    \/ MediaSkip
    \/ MediaUpload
    \/ SpacingSleep
    \/ FinishPost
    \/ Terminate
    \/ TerminateInUpload
    \/ CorruptFile

Spec == Init /\ [][Next]_vars

(***************************************************************************)
(* One pass of the media loop of process_profile (lines 190-264) on its    *)
(* own, with the watermark transform: the file, whether a watermark image  *)
(* is given, how apply_watermark ends and the uploads carried forward are  *)
(* drawn at the start.  A file is named by its index, the watermarked copy *)
(* of file f by -f.                                                        *)
(***************************************************************************)
\* how apply_watermark ends (watermark.py, lines 133-184): it returns, or
\* it raises for a missing video, a missing image, a missing moviepy or
\* a failure of the rendering
Transforms == {"ok", "no_video", "no_watermark", "no_moviepy", "render_error"}

\* line 207: video_path.with_name(f"{video_path.stem}_wm{video_path.suffix}").
\* The files a post is fetched with are 1..MediaPerPost; the copy of file
\* f is f + WmStride, the copy of that copy f + 2 * WmStride, and so on
WmStride == MediaPerPost + 1
WmOutput(media) == media + WmStride

\* lines 196 and 203-220: the path handed to upload_video
VideoPathMutKeepsOutput(media, watermark_image, transform) ==
    IF watermark_image THEN WmOutput(media) ELSE media
VideoPath(media, watermark_image, transform) ==
    IF watermark_image /\ transform = "ok" THEN WmOutput(media) ELSE media

\* the meta dict of a post whose prior record lists the uploads prior
IterMeta(j, prior) ==
    [NoFile EXCEPT
        !.exists = TRUE, !.title = j, !.description = j,
        !.uploads = prior,
        !.video_ids = [i \in 1..Len(prior) |-> i]]

IterInputs ==
    [pc : {"file"}, k : Posts, m : Media, watermark_image : BOOLEAN,
     transform : Transforms, test_mode : BOOLEAN,
     prior : {<<>>, <<1>>}, video_path : {0}, passed : {<<>>}]

InitMedia ==
    /\ \E i \in IterInputs :
          iter = [pc |-> i.pc, k |-> i.k, m |-> i.m,
                  watermark_image |-> i.watermark_image,
                  transform |-> i.transform, test_mode |-> i.test_mode,
                  prior |-> i.prior, video_path |-> i.video_path,
                  passed |-> i.passed, meta |-> IterMeta(i.k, i.prior)]
    /\ call = [CallInit EXCEPT !.pc = "entry"]
    /\ args = RunArgs(FALSE)
    /\ RunIdle
    /\ hd = WaitIdle
    /\ fn = FnIdle

\* lines 191-201: not a video, or a file name already in meta["uploads"]
IterSkip ==
    /\ iter.pc = "file"
    /\ ~IsVideo(iter.k, iter.m) \/ InSeq(iter.m, iter.meta.uploads)
    /\ iter' = [iter EXCEPT !.pc = "next"]
    /\ UNCHANGED <<uvars, rvars, hd, fn>>

\* lines 196 and 202-220: video_path, the watermark applied if requested
IterWatermark ==
    /\ iter.pc = "file"
    /\ IsVideo(iter.k, iter.m) /\ ~InSeq(iter.m, iter.meta.uploads)
    /\ iter' = [iter EXCEPT
                   !.pc = "upload",
                   !.video_path = VideoPath(iter.m, iter.watermark_image,
                                            iter.transform)]
    /\ UNCHANGED <<uvars, rvars, hd, fn>>

\* lines 221-259: upload_video(video_path=video_path, ...) and the record
IterUpload ==
    /\ iter.pc = "upload"
    /\ \E c \in CallOutcomes(MaxFaults, Len(iter.meta.video_ids) + 1,
                              iter.test_mode) :
          /\ call' = c
          /\ iter' = [iter EXCEPT
                         !.pc = "next",
                         !.passed = Append(iter.passed, iter.video_path),
                         !.meta = IF c.result.success /\ c.video_id # NoId
                                     /\ c.video_id # TEST_MODE_ID
                                  THEN RecordUpload(iter.meta, iter.m, c)
                                  ELSE iter.meta]
    /\ args' = RunArgs(iter.test_mode)
    /\ UNCHANGED <<rvars, hd, fn>>

NextMedia ==
    \/ IterSkip
    \/ IterWatermark
    \/ IterUpload

SpecMedia == InitMedia /\ [][NextMedia]_vars

(***************************************************************************)
(* wait_for_hd_processing (youtube_uploader.py, lines 86-155) on its own,  *)
(* called by upload_video after a transfer that returned video id 1.  Time *)
(* is counted in seconds since start_time; a status poll takes one of the  *)
(* durations of PollSeconds.                                               *)
(***************************************************************************)
HD_CHECK_INTERVAL == 30
HD_CHECK_TIMEOUT == 3600
PollSeconds == {0, 20}

\* what service.videos().list(...).execute() gives: it raises ("error"),
\* the item list is empty ("missing"), processingStatus is "terminated",
\* or it is anything else ("processing"); partsTotal: processingProgress
\* has a non-zero partsTotal; quality: the best rendition listed
NoPoll == [kind |-> "none", partsTotal |-> FALSE, quality |-> "none"]
PollResponses ==
    [kind : {"error", "missing"}, partsTotal : {FALSE}, quality : {"none"}]
    \cup [kind : {"processing"}, partsTotal : BOOLEAN, quality : {"none"}]
    \cup [kind : {"terminated"}, partsTotal : BOOLEAN,
          quality : {"none", "sd", "hd", "maxres"}]

\* lines 132-138: "hd" in available_qualities or "maxres" in ...
QualifiesMutAnyTerminated(resp) == TRUE
Qualifies(resp) == resp.partsTotal /\ resp.quality \in {"hd", "maxres"}

\* line 113: elapsed > timeout_secs
TimedOutMutLate(w) == w.now > HD_CHECK_TIMEOUT + 600
TimedOut(w) == w.now > HD_CHECK_TIMEOUT

\* the wait at its start: pc is "check" at the head of the loop, "poll"
\* before the status request, "sleep" before time.sleep, "returned" after
\* a return, "done" once upload_video has returned too
WaitStart ==
    [pc |-> "check", now |-> 0, polled |-> FALSE, gap |-> 0,
     lastpoll |-> NoPoll, result |-> FALSE, any_error |-> FALSE,
     all_errors |-> TRUE, by_timeout |-> FALSE]

\* lines 117-155: the body of the loop on the answer resp
OnPollMutErrorEnds(w, resp) ==
    CASE resp.kind = "processing"
           -> [w EXCEPT !.pc = "sleep", !.all_errors = FALSE]
      [] resp.kind = "terminated"
           -> [w EXCEPT !.pc = "returned", !.result = Qualifies(resp),
                        !.all_errors = FALSE]
      [] OTHER
           -> [w EXCEPT !.pc = "returned", !.result = FALSE,
                        !.any_error = (w.any_error \/ resp.kind = "error"),
                        !.all_errors = (w.all_errors /\ resp.kind = "error")]
OnPoll(w, resp) ==
    CASE resp.kind = "error"
           -> [w EXCEPT !.pc = "sleep", !.any_error = TRUE]
      [] resp.kind = "missing"
           -> [w EXCEPT !.pc = "returned", !.result = FALSE,
                        !.all_errors = FALSE]
      [] resp.kind = "terminated"
           -> [w EXCEPT !.pc = "returned", !.result = Qualifies(resp),
                        !.all_errors = FALSE]
      [] OTHER
           -> [w EXCEPT !.pc = "sleep", !.all_errors = FALSE]

InitWait ==
    /\ hd = WaitStart
    /\ call = CallInit
    /\ args = RunArgs(FALSE)
    /\ RunIdle
    /\ iter = IterIdle
    /\ fn = FnIdle

\* lines 112-115: the timeout test at the head of the loop
WaitCheck ==
    /\ hd.pc = "check"
    /\ hd' = IF TimedOut(hd)
             THEN [hd EXCEPT !.pc = "returned", !.result = FALSE,
                             !.by_timeout = TRUE]
             ELSE [hd EXCEPT !.pc = "poll"]
    /\ UNCHANGED <<uvars, rvars, iter, fn>>

\* lines 117-153: one status request and what the loop makes of it
WaitPoll ==
    /\ hd.pc = "poll"
    /\ \E resp \in PollResponses, d \in PollSeconds :
          hd' = OnPoll([hd EXCEPT !.now = hd.now + d, !.polled = TRUE,
                                  !.gap = 0, !.lastpoll = resp], resp)
    /\ UNCHANGED <<uvars, rvars, iter, fn>>

\* line 155: time.sleep(check_interval)
WaitSleep ==
    /\ hd.pc = "sleep"
    /\ hd' = [hd EXCEPT !.pc = "check",
                        !.now = hd.now + HD_CHECK_INTERVAL,
                        !.gap = hd.gap + HD_CHECK_INTERVAL]
    /\ UNCHANGED <<uvars, rvars, iter, fn>>

\* upload_video, lines 326-338: the transfer's final response carried id 1;
\* hd_ready is what the wait returned
WaitReturn ==
    /\ hd.pc = "returned"
    /\ hd' = [hd EXCEPT !.pc = "done"]
    /\ call' = AttemptStep(call, [CleanResponse(1) EXCEPT !.hd = hd.result],
                           args.wait_for_hd)
    /\ UNCHANGED <<args, rvars, iter, fn>>

NextWait ==
    \/ WaitCheck
    \/ WaitPoll
    \/ WaitSleep
    \/ WaitReturn

SpecWait == InitWait /\ [][NextWait]_vars

(***************************************************************************)
(* _collect_posts (downloader.py, lines 59-91): the caption files of the   *)
(* target directory are read in path order, one post per file, and the     *)
(* list is sorted on (timestamp is None, timestamp).                       *)
(***************************************************************************)
BaseNameCount == 5
BaseNames == 1..BaseNameCount

\* datetime | None
NoTimestamp == [none |-> TRUE, t |-> 0]
Timestamp(t) == [none |-> FALSE, t |-> t]

\* _parse_timestamp, lines 46-56.  strptime takes fields without leading
\* zeros too, so two names can give one timestamp; a name that does not
\* match the pattern, or names no date, gives None:
\*   1 "2024-03-01_10-00-00_UTC"     2 "2024-01-01_10-00-00_UTC"
\*   3 "notes"                       4 "2024-3-1_10-0-0_UTC"
\*   5 "2024-13-01_00-00-00_UTC"     above 5: one timestamp per name
ParseTimestamp(base_name) ==
    CASE base_name \in {1, 4} -> Timestamp(2)
      [] base_name = 2 -> Timestamp(1)
      [] base_name \in {3, 5} -> NoTimestamp
      [] OTHER -> Timestamp(base_name)

\* PostInfo, without the media files and the caption
PostInfo(base_name) ==
    [base_name |-> base_name, timestamp |-> ParseTimestamp(base_name)]

\* key=lambda p: (p.timestamp is None, p.timestamp), compared as tuples
KeyLessMutNoneFirst(p, q) ==
    \/ p.timestamp.none /\ ~q.timestamp.none
    \/ ~p.timestamp.none /\ ~q.timestamp.none /\ p.timestamp.t < q.timestamp.t
KeyLess(p, q) ==
    \/ ~p.timestamp.none /\ q.timestamp.none
    \/ ~p.timestamp.none /\ ~q.timestamp.none /\ p.timestamp.t < q.timestamp.t

\* list.sort is stable: p goes behind every element whose key is not
\* greater than its own
InsertStable(sorted, p) ==
    LET n == Cardinality({i \in DOMAIN sorted : ~KeyLess(p, sorted[i])})
    IN  SubSeq(sorted, 1, n) \o <<p>> \o SubSeq(sorted, n + 1, Len(sorted))
RECURSIVE SortPosts(_)
SortPosts(posts) ==
    IF posts = <<>> THEN <<>>
    ELSE InsertStable(SortPosts(SubSeq(posts, 1, Len(posts) - 1)),
                      posts[Len(posts)])

\* sorted(target_dir.rglob("*.txt")): the caption files in path order; a
\* post may lie in any subdirectory, so any order of the names is possible
Listings ==
    UNION {{f \in [1..n -> BaseNames] : \A i, j \in 1..n : i # j => f[i] # f[j]}
             : n \in 0..BaseNameCount}

InitCollect ==
    /\ \E exists \in BOOLEAN, files \in Listings :
          /\ ~exists => files = <<>>
          /\ fn = [name |-> "_collect_posts", pc |-> "start", exists |-> exists,
                   files |-> files, posts |-> <<>>, out |-> <<>>]
    /\ call = CallInit
    /\ args = RunArgs(FALSE)
    /\ RunIdle
    /\ iter = IterIdle
    /\ hd = WaitIdle

\* lines 66-68: a target directory that does not exist gives no posts
CollectMissing ==
    /\ fn.name = "_collect_posts"
    /\ fn.pc = "start"
    /\ ~fn.exists
    /\ fn' = [fn EXCEPT !.pc = "returned", !.out = <<>>]
    /\ UNCHANGED <<uvars, rvars, iter, hd>>

\* lines 71-87: the next caption file gives one PostInfo
CollectAppend ==
    /\ fn.name = "_collect_posts"
    /\ fn.pc = "start"
    /\ fn.exists
    /\ Len(fn.posts) < Len(fn.files)
    /\ fn' = [fn EXCEPT !.posts = Append(fn.posts,
                                         PostInfo(fn.files[Len(fn.posts) + 1]))]
    /\ UNCHANGED <<uvars, rvars, iter, hd>>

\* lines 89-91: posts.sort(...); return posts
CollectSort ==
    /\ fn.name = "_collect_posts"
    /\ fn.pc = "start"
    /\ fn.exists
    /\ Len(fn.posts) = Len(fn.files)
    /\ fn' = [fn EXCEPT !.pc = "returned", !.out = SortPosts(fn.posts)]
    /\ UNCHANGED <<uvars, rvars, iter, hd>>

NextCollect ==
    \/ CollectMissing
    \/ CollectAppend
    \/ CollectSort

SpecCollect == InitCollect /\ [][NextCollect]_vars

(***************************************************************************)
(* _heuristic_title_description (summarizer.py, lines 28-68).  A string is *)
(* the sequence of its characters: "a" is a letter, " " and "NL" are white *)
(* space, ".", "!", "?" and "#" are themselves.  A caption is made of up   *)
(* to MaxPieces pieces, each one character or a word of WordLength         *)
(* letters, so that titles longer than the limit occur.                    *)
(***************************************************************************)
TitleLimit == 80
MaxPieces == 4
WordLength == 30

IsSpace(c) == c \in {" ", "NL"}
IsWord(c) == c = "a"

Pieces ==
    {<<c>> : c \in {"a", " ", "NL", ".", "!", "?", "#"}}
    \cup {[i \in 1..WordLength |-> "a"]}

RECURSIVE Concat(_)
Concat(ps) == IF ps = <<>> THEN <<>> ELSE Head(ps) \o Concat(Tail(ps))

Captions ==
    {Concat(ps) : ps \in UNION {[1..n -> Pieces] : n \in 0..MaxPieces}}

\* str.strip()
Strip(s) ==
    LET solid == {i \in DOMAIN s : ~IsSpace(s[i])}
    IN  IF solid = {} THEN <<>>
        ELSE SubSeq(s, CHOOSE i \in solid : \A j \in solid : i <= j,
                       CHOOSE i \in solid : \A j \in solid : j <= i)

\* re.sub(r"\s+", " ", s): every run of white space becomes one space
RECURSIVE CollapseFrom(_, _, _)
CollapseFrom(s, i, acc) ==
    IF i > Len(s) THEN acc
    ELSE IF ~IsSpace(s[i]) THEN CollapseFrom(s, i + 1, Append(acc, s[i]))
    ELSE IF i > 1 /\ IsSpace(s[i - 1]) THEN CollapseFrom(s, i + 1, acc)
    ELSE CollapseFrom(s, i + 1, Append(acc, " "))

\* _clean_caption, line 33
CleanCaption(caption) == CollapseFrom(Strip(caption), 1, <<>>)

\* re.sub(r"#[\w\d_]+", "", text): a "#" and the letters that follow it
\* go, when at least one letter follows
RECURSIVE StripTagsFrom(_, _, _)
StripTagsFrom(s, i, acc) ==
    IF i > Len(s) THEN acc
    ELSE IF s[i] = "#" /\ i < Len(s) /\ IsWord(s[i + 1])
    THEN LET stops == {j \in (i + 1)..Len(s) : ~IsWord(s[j])}
         IN  StripTagsFrom(s, IF stops = {} THEN Len(s) + 1
                                ELSE CHOOSE j \in stops : \A x \in stops : j <= x,
                           acc)
    ELSE StripTagsFrom(s, i + 1, Append(acc, s[i]))
StripTagsMutKeep(text) == text
StripTags(text) == StripTagsFrom(text, 1, <<>>)

\* str.find(c), counted from 1; 0 when c does not occur
Find(s, c) ==
    LET hits == {i \in DOMAIN s : s[i] = c}
    IN  IF hits = {} THEN 0 ELSE CHOOSE i \in hits : \A j \in hits : i <= j

\* _extract_first_sentence, lines 36-50: the terminators are tried in the
\* order ".", "!", "?" and the first one that occurs decides the cut
ExtractFirstSentence(text) ==
    LET t == StripTags(text)
    IN  IF Find(t, ".") # 0 THEN Strip(SubSeq(t, 1, Find(t, ".")))
        ELSE IF Find(t, "!") # 0 THEN Strip(SubSeq(t, 1, Find(t, "!")))
        ELSE IF Find(t, "?") # 0 THEN Strip(SubSeq(t, 1, Find(t, "?")))
        ELSE Strip(t)

\* first_sentence[:80]
Truncate(s, n) == SubSeq(s, 1, IF Len(s) < n THEN Len(s) ELSE n)

\* _heuristic_title_description, lines 61-68
HeuristicTitle(caption) ==
    Strip(Truncate(ExtractFirstSentence(CleanCaption(caption)), TitleLimit))
HeuristicDescription(caption) == CleanCaption(caption)

InitTitle ==
    /\ \E caption \in Captions :
          fn = [name |-> "_heuristic_title_description", pc |-> "start",
                caption |-> caption, title |-> <<>>, description |-> <<>>]
    /\ call = CallInit
    /\ args = RunArgs(FALSE)
    /\ RunIdle
    /\ iter = IterIdle
    /\ hd = WaitIdle

\* lines 61-63: nothing is left of the caption
TitleOfEmpty ==
    /\ fn.name = "_heuristic_title_description"
    /\ fn.pc = "start"
    /\ CleanCaption(fn.caption) = <<>>
    /\ fn' = [fn EXCEPT !.pc = "returned", !.title = <<>>,
                        !.description = <<>>]
    /\ UNCHANGED <<uvars, rvars, iter, hd>>

\* lines 64-68
TitleOfCaption ==
    /\ fn.name = "_heuristic_title_description"
    /\ fn.pc = "start"
    /\ CleanCaption(fn.caption) # <<>>
    /\ fn' = [fn EXCEPT !.pc = "returned",
                        !.title = HeuristicTitle(fn.caption),
                        !.description = HeuristicDescription(fn.caption)]
    /\ UNCHANGED <<uvars, rvars, iter, hd>>

NextTitle ==
    \/ TitleOfEmpty
    \/ TitleOfCaption

SpecTitle == InitTitle /\ [][NextTitle]_vars

(***************************************************************************)
(* _get_position_offsets (watermark.py, lines 54-90).                      *)
(***************************************************************************)
\* the position strings tried: the four names in several spellings, and
\* strings that name no corner
Positions ==
    {"top-left", "TOP-LEFT", "top-right", "Top-Right", "bottom-left",
     "Bottom-Left", "bottom-right", "BOTTOM-RIGHT", "center", ""}

\* str.lower()
LowerMutSame(position) == position
Lower(position) ==
    CASE position = "TOP-LEFT" -> "top-left"
      [] position = "Top-Right" -> "top-right"
      [] position = "Bottom-Left" -> "bottom-left"
      [] position = "BOTTOM-RIGHT" -> "bottom-right"
      [] OTHER -> position

\* video_size, wm_size in pixels, a watermark wider than the frame included
VideoSizes == {<<1000, 500>>, <<640, 360>>}
WmSizes == {<<200, 100>>, <<64, 32>>, <<1200, 100>>}
Margins == {0, 5, 10}

\* lines 77-90
GetPositionOffsets(video_size, wm_size, position, margin) ==
    LET vid_w == video_size[1]
        vid_h == video_size[2]
        wm_w == wm_size[1]
        wm_h == wm_size[2]
        pos == Lower(position)
    IN  CASE pos = "top-left" -> <<margin, margin>>
          [] pos = "top-right" -> <<vid_w - wm_w - margin, margin>>
          [] pos = "bottom-left" -> <<margin, vid_h - wm_h - margin>>
          [] pos = "bottom-right"
               -> <<vid_w - wm_w - margin, vid_h - wm_h - margin>>
          [] OTHER -> <<vid_w - wm_w - margin, vid_h - wm_h - margin>>

InitOffsets ==
    /\ \E video_size \in VideoSizes, wm_size \in WmSizes,
          position \in Positions, margin \in Margins :
          fn = [name |-> "_get_position_offsets", pc |-> "start",
                video_size |-> video_size, wm_size |-> wm_size,
                position |-> position, margin |-> margin, out |-> <<0, 0>>]
    /\ call = CallInit
    /\ args = RunArgs(FALSE)
    /\ RunIdle
    /\ iter = IterIdle
    /\ hd = WaitIdle

OffsetsReturn ==
    /\ fn.name = "_get_position_offsets"
    /\ fn.pc = "start"
    /\ fn' = [fn EXCEPT !.pc = "returned",
                        !.out = GetPositionOffsets(fn.video_size, fn.wm_size,
                                                   fn.position, fn.margin)]
    /\ UNCHANGED <<uvars, rvars, iter, hd>>

NextOffsets == OffsetsReturn

SpecOffsets == InitOffsets /\ [][NextOffsets]_vars

(***************************************************************************)
(* process_profile (main.py, lines 46-289) on its own, one iteration of    *)
(* the post loop per step, over a platform that answers every upload with  *)
(* an id.  The flags upload_videos and per_post_subdirs and the halt flag  *)
(* of service_params are inputs; the profile directory holds records of    *)
(* earlier runs.                                                           *)
(***************************************************************************)
\* lines 115-119
UploadForThisPostMutAlways(upload_videos, limit_reached) == TRUE
UploadForThisPost(upload_videos, limit_reached) ==
    upload_videos /\ ~limit_reached

\* lines 120-124: the path of the metadata file of the post base_name,
\* below the profile directory
MetaPath(per_post_subdirs, post_dir_exists, base_name) ==
    IF per_post_subdirs /\ post_dir_exists
    THEN [layout |-> "nested", dir |-> base_name, file |-> 0]
    ELSE [layout |-> "flat", dir |-> 0, file |-> base_name]

\* lines 190-280 over a platform without faults: every video file not yet
\* in meta["uploads"] is uploaded and recorded, with ids from id upwards
RECURSIVE MediaLoop(_, _, _, _)
MediaLoop(rec, j, v, id) ==
    IF v > MediaPerPost THEN rec
    ELSE IF IsVideo(j, v) /\ ~InSeq(v, rec.uploads)
    THEN MediaLoop(RecordUpload(rec, v, [video_id |-> id]), j, v + 1, id + 1)
    ELSE MediaLoop(rec, j, v + 1, id)

\* what an earlier run can have left at the path of post j: nothing, a
\* file that cannot be read, the record of a run without uploads, the
\* record of an interrupted run (one upload written, uploaded still
\* false), the record of a completed run
PriorFiles(u, j) ==
    LET seen == [NoFile EXCEPT !.exists = TRUE, !.title = GenTitle(u, j),
                               !.description = GenDescription(u, j)]
        one == RecordUpload(seen, MediaPerPost, [video_id |-> 1])
    IN  {NoFile, Unreadable, seen, one, [one EXCEPT !.uploaded = TRUE]}

InitProfile ==
    /\ \E u \in Usernames, upload_videos \in BOOLEAN, limit \in BOOLEAN,
          per_post_subdirs \in BOOLEAN, post_dirs \in BOOLEAN,
          dir \in [Posts -> UNION {PriorFiles(v, j) : v \in Usernames, j \in Posts}] :
          /\ \A j \in Posts : dir[j] \in PriorFiles(u, j)
          /\ per_post_subdirs => post_dirs
          /\ fn = [name |-> "process_profile", pc |-> "post", username |-> u,
                   upload_videos |-> upload_videos,
                   upload_limit_reached |-> limit,
                   per_post_subdirs |-> per_post_subdirs,
                   post_dirs |-> post_dirs, dir |-> dir, prior |-> dir,
                   k |-> 1, uploads_this_run |-> 0, engine_calls |-> 0,
                   skipped |-> {}, written |-> {}]
    /\ call = CallInit
    /\ args = RunArgs(FALSE)
    /\ RunIdle
    /\ iter = IterIdle
    /\ hd = WaitIdle

ProfileAtPost ==
    /\ fn.name = "process_profile"
    /\ fn.pc = "post"
    /\ fn.k <= PostsPerProfile

\* lines 112-114, and the end of the list of posts
ProfileReturn ==
    /\ fn.name = "process_profile"
    /\ fn.pc = "post"
    /\ fn.k > PostsPerProfile \/ CapReached(fn.uploads_this_run)
    /\ fn' = [fn EXCEPT !.pc = "returned"]
    /\ UNCHANGED <<uvars, rvars, iter, hd>>

\* lines 131-158: the post is passed over, by its own record or by
\* another one
ProfileSkip ==
    /\ ProfileAtPost
    /\ ~CapReached(fn.uploads_this_run)
    /\ \/ AlreadyUploaded(fn.dir, fn.k)
       \/ HasDuplicate(fn.dir, fn.k, GenTitle(fn.username, fn.k),
                       GenDescription(fn.username, fn.k))
    /\ fn' = [fn EXCEPT !.k = fn.k + 1, !.skipped = fn.skipped \cup {fn.k}]
    /\ UNCHANGED <<uvars, rvars, iter, hd>>

\* lines 160-182 and 284-289: uploads are off for the post; the
\* regenerated record is written
ProfileWriteOnly ==
    /\ ProfileAtPost
    /\ ~CapReached(fn.uploads_this_run)
    /\ ~AlreadyUploaded(fn.dir, fn.k)
    /\ ~HasDuplicate(fn.dir, fn.k, GenTitle(fn.username, fn.k),
                     GenDescription(fn.username, fn.k))
    /\ ~UploadForThisPost(fn.upload_videos, fn.upload_limit_reached)
    /\ fn' = [fn EXCEPT
                !.k = fn.k + 1,
                !.dir[fn.k] = NewMeta(fn.dir, fn.k, GenTitle(fn.username, fn.k),
                                      GenDescription(fn.username, fn.k), 1),
                !.written = fn.written \cup
                    {MetaPath(fn.per_post_subdirs, fn.post_dirs, fn.k)}]
    /\ UNCHANGED <<uvars, rvars, iter, hd>>

\* lines 160-289: uploads are on for the post; the media loop runs and
\* the record is written with uploaded set from video_ids
ProfileUploadPost ==
    /\ ProfileAtPost
    /\ ~CapReached(fn.uploads_this_run)
    /\ ~AlreadyUploaded(fn.dir, fn.k)
    /\ ~HasDuplicate(fn.dir, fn.k, GenTitle(fn.username, fn.k),
                     GenDescription(fn.username, fn.k))
    /\ UploadForThisPost(fn.upload_videos, fn.upload_limit_reached)
    /\ LET fresh == NewMeta(fn.dir, fn.k, GenTitle(fn.username, fn.k),
                            GenDescription(fn.username, fn.k), 1)
           done == MediaLoop(fresh, fn.k, 1, fn.engine_calls + 1)
           n == Len(done.uploads) - Len(fresh.uploads)
       IN  fn' = [fn EXCEPT
                    !.k = fn.k + 1,
                    !.dir[fn.k] = [done EXCEPT !.uploaded = FinalUploaded(done)],
                    !.uploads_this_run = fn.uploads_this_run + n,
                    !.engine_calls = fn.engine_calls + n,
                    !.written = fn.written \cup
                        {MetaPath(fn.per_post_subdirs, fn.post_dirs, fn.k)}]
    /\ UNCHANGED <<uvars, rvars, iter, hd>>

NextProfile ==
    \/ ProfileReturn
    \/ ProfileSkip
    \/ ProfileWriteOnly
    \/ ProfileUploadPost

SpecProfile == InitProfile /\ [][NextProfile]_vars

(***************************************************************************)
(* One post over several runs with its directory: download_posts collects  *)
(* the media files of the post anew in every run (downloader.py, lines     *)
(* 71-88), and process_profile (main.py, lines 107-289) watermarks and     *)
(* uploads them.  The post is the first of its profile, so the cap test at *)
(* its head passes.                                                        *)
(***************************************************************************)
\* the file a name derives from, and how many "_wm" its stem ends with
OriginalOf(name) == name % WmStride
WmCount(name) == name \div WmStride

\* media.suffix of a copy is the suffix of its original
IsVideoFile(j, name) == IsVideo(j, OriginalOf(name))

\* sorted(media_files): "x_1.mp4" < "x_1_wm.mp4" < "x_2.mp4"
PathLess(a, b) ==
    \/ OriginalOf(a) < OriginalOf(b)
    \/ OriginalOf(a) = OriginalOf(b) /\ WmCount(a) < WmCount(b)
RECURSIVE SortedMedia(_)
SortedMedia(files) ==
    IF files = {} THEN <<>>
    ELSE LET f == CHOOSE x \in files : \A y \in files \ {x} : PathLess(x, y)
         IN  <<f>> \o SortedMedia(files \ {f})

\* media_dir.glob(f"{base_name}*") without the .txt, .json, .xz and .zip
\* files: every media file in the directory whose name starts with the
\* base name of the post
CollectMedia(files) == SortedMedia(files)

\* the record of the post as a run finds it, without the directory around
PostDir(rec) == [j \in Posts |-> rec]

InitPost ==
    /\ \E j \in Posts, watermark_image \in BOOLEAN :
          fn = [name |-> "process_post", pc |-> "shell", k |-> j,
                watermark_image |-> watermark_image, test_mode |-> FALSE,
                files |-> Media, media |-> <<>>, rec |-> NoFile,
                meta |-> NoFile, runs |-> 0, faults |-> 0, halted |-> FALSE,
                invoked |-> <<>>]
    /\ call = CallInit
    /\ args = RunArgs(FALSE)
    /\ RunIdle
    /\ iter = IterIdle
    /\ hd = WaitIdle

\* a run starts and comes to the post: the fetch, lines 131-140 with the
\* record marked uploaded
PostSkipUploaded ==
    /\ fn.name = "process_post"
    /\ fn.pc = "shell"
    /\ fn.runs < MaxCalls
    /\ AlreadyUploaded(PostDir(fn.rec), fn.k)
    /\ fn' = [fn EXCEPT !.runs = fn.runs + 1]
    /\ UNCHANGED <<uvars, rvars, iter, hd>>

\* a run starts and comes to the post: the fetch, lines 131-189
PostBegin ==
    /\ fn.name = "process_post"
    /\ fn.pc = "shell"
    /\ fn.runs < MaxCalls
    /\ ~AlreadyUploaded(PostDir(fn.rec), fn.k)
    /\ \E test_mode \in BOOLEAN :
          fn' = [fn EXCEPT
                   !.pc = "media",
                   !.runs = fn.runs + 1,
                   !.test_mode = test_mode,
                   !.halted = FALSE,
                   !.media = CollectMedia(fn.files),
                   !.meta = NewMeta(PostDir(fn.rec), fn.k, GenTitle("a", fn.k),
                                    GenDescription("a", fn.k), fn.runs + 1)]
    /\ UNCHANGED <<uvars, rvars, iter, hd>>

\* lines 190-201: not a video, or a name that meta["uploads"] lists
PostMediaSkip ==
    /\ fn.name = "process_post"
    /\ fn.pc = "media"
    /\ ~fn.halted
    /\ fn.media # <<>>
    /\ ~IsVideoFile(fn.k, Head(fn.media)) \/ InSeq(Head(fn.media), fn.meta.uploads)
    /\ fn' = [fn EXCEPT !.media = Tail(fn.media)]
    /\ UNCHANGED <<uvars, rvars, iter, hd>>

\* lines 202-266: the watermark, the call of upload_video and what the
\* loop makes of its result
PostMediaUpload ==
    /\ fn.name = "process_post"
    /\ fn.pc = "media"
    /\ ~fn.halted
    /\ fn.media # <<>>
    /\ IsVideoFile(fn.k, Head(fn.media))
    /\ ~InSeq(Head(fn.media), fn.meta.uploads)
    /\ \E transform \in Transforms,
          c \in CallOutcomes(MaxFaults - fn.faults, Len(fn.invoked) + 1,
                             fn.test_mode) :
          LET media == Head(fn.media)
              video_path == VideoPath(media, fn.watermark_image, transform)
              recorded == c.result.success /\ c.video_id # NoId
                            /\ c.video_id # TEST_MODE_ID
              meta2 == IF recorded THEN RecordUpload(fn.meta, media, c)
                       ELSE fn.meta
          IN  /\ ~fn.watermark_image => transform = "ok"
              /\ fn' = [fn EXCEPT
                          !.files = IF video_path # media
                                    THEN fn.files \cup {video_path}
                                    ELSE fn.files,
                          !.invoked = Append(fn.invoked,
                                        [media |-> media,
                                         video_path |-> video_path,
                                         recorded |-> recorded]),
                          !.faults = fn.faults + Faults(c.log),
                          !.meta = meta2,
                          !.rec = IF recorded THEN meta2 ELSE fn.rec,
                          !.halted = ~c.result.success /\ ErrorNamesLimit(c),
                          !.media = Tail(fn.media)]
    /\ UNCHANGED <<uvars, rvars, iter, hd>>

\* lines 281-289: the end of the media loop, or the break of the halt
PostFinish ==
    /\ fn.name = "process_post"
    /\ fn.pc = "media"
    /\ fn.halted \/ fn.media = <<>>
    /\ fn' = [fn EXCEPT
                !.pc = "shell",
                !.media = <<>>,
                !.halted = FALSE,
                !.meta = NoFile,
                !.rec = [fn.meta EXCEPT !.uploaded = FinalUploaded(fn.meta)]]
    /\ UNCHANGED <<uvars, rvars, iter, hd>>

NextPost ==
    \/ PostSkipUploaded
    \/ PostBegin
    \/ PostMediaSkip
    \/ PostMediaUpload
    \/ PostFinish

SpecPost == InitPost /\ [][NextPost]_vars

(***************************************************************************)
(* The three loops of a run, each on its own and each taking a step        *)
(* whenever it can: the attempts of upload_video, the polls of             *)
(* wait_for_hd_processing with the return of upload_video behind them, and *)
(* the post loop of process_profile.  Every request of the platform        *)
(* returns or fails, so no step waits for ever.                            *)
(***************************************************************************)
InitLoops ==
    \/ InitUpload
    \/ InitWait
    \/ InitProfile

\* which of the three loops a behaviour runs
InUploadVideo == fn = FnIdle /\ hd = WaitIdle
InWait == hd.pc # "idle"
InProcessProfile == fn.name = "process_profile"

LoopsConfigError == InUploadVideo /\ UploadConfigError
LoopsTestMode == InUploadVideo /\ UploadTestMode
LoopsEnterLoop == InUploadVideo /\ UploadEnterLoop
LoopsAttempt == InUploadVideo /\ UploadAttempt

NextLoops ==
    \/ LoopsConfigError
    \/ LoopsTestMode
    \/ LoopsEnterLoop
    \/ LoopsAttempt
    \/ NextWait
    \/ NextProfile

SpecLoops == InitLoops /\ [][NextLoops]_vars /\ WF_vars(NextLoops)

(***************************************************************************)
(* Vocabulary of the properties                                            *)
(***************************************************************************)
\* a 400 response with one of the two quota texts
QuotaResponse(r) ==
    r.kind = "http" /\ r.status = 400 /\ (r.limitText \/ r.exceededText)
\* a 400 response with neither quota text
BadRequest(r) ==
    r.kind = "http" /\ r.status = 400 /\ ~r.limitText /\ ~r.exceededText
\* a non-400 HTTP error, a network error or another exception
Transient(r) == r.kind = "exc" \/ (r.kind = "http" /\ r.status # 400)
\* a final response without an identifier
MissingId(r) == r.kind = "final" /\ r.id = NoId
\* a final response with an identifier
WithId(r) == r.kind = "final" /\ r.id # NoId
LastResponse == call.log[Len(call.log)]
\* a real call of upload_video has returned a failure result
ReturnedFailure ==
    call.pc = "returned" /\ ~call.result.success /\ call.video_id = NoId
\* process_profile has returned to main
ProfileReturned == r_pc = "main" /\ calls > 0
\* post j of the profile has its metadata file, or the Duplicate Guard
\* skips it
MetadataOrSkipped(j) ==
    \/ dirs[username][j].exists
    \/ HasDuplicate(dirs[username], j, GenTitle(username, j),
                    GenDescription(username, j))

\* the step invokes upload_video
EngineInvoked == last' \in {"MediaUpload", "TerminateInUpload"}
\* the persisted metadata of post j of profile u marks it uploaded
MarkedUploaded(u, j) ==
    dirs[u][j].exists /\ dirs[u][j].valid /\ dirs[u][j].uploaded
\* the step is one of the program, not damage to a file
ByProgram == last' # "CorruptFile"
\* the uploads list of the metadata record rec names file v
Listed(v, rec) == \E i \in DOMAIN rec.uploads : rec.uploads[i] = v
\* sequence s is a prefix of sequence t
IsPrefix(s, t) == Len(s) <= Len(t) /\ SubSeq(t, 1, Len(s)) = s
\* a video file of post j of profile u that its persisted metadata does
\* not list in uploads
Unlisted(u, j) ==
    {v \in Media : IsVideo(j, v) /\ ~Listed(v, dirs[u][j])}

\* another metadata record of the directory of u has the title or the
\* description generated for post j
OtherRecordMatches(u, j) ==
    \E i \in Posts \ {j} :
        /\ dirs[u][i].exists
        /\ dirs[u][i].valid
        /\ \/ dirs[u][i].title = GenTitle(u, j)
           \/ dirs[u][i].description = GenDescription(u, j)

\* the post loop is at the head of post k and goes on to examine it
AtPostHead ==
    /\ r_pc = "post"
    /\ k <= PostsPerProfile
    /\ uploads_this_run < MAX_UPLOADS_PER_DAY
\* the metadata file of post j of profile u cannot be read
UnreadableFile(u, j) == dirs[u][j].exists /\ ~dirs[u][j].valid
\* the record of a post met for the first time
FirstEncounter(u, j, now) ==
    [exists |-> TRUE, valid |-> TRUE, title |-> GenTitle(u, j),
     description |-> GenDescription(u, j), uploaded |-> FALSE,
     video_ids |-> <<>>, uploads |-> <<>>, upload_details |-> {},
     first_seen |-> now]

\* the record of post j of profile u lists every video file of the post
Complete(u, j) ==
    /\ dirs[u][j].exists
    /\ dirs[u][j].valid
    /\ \A v \in Media : IsVideo(j, v) => Listed(v, dirs[u][j])

\* post j of profile u needs nothing more: its record is complete, or it
\* has no record and is passed over as a duplicate of another record
Handled(u, j) ==
    \/ Complete(u, j)
    \/ ~dirs[u][j].exists /\ OtherRecordMatches(u, j)

\* position of the post named n in the list of posts
PlaceOf(n, posts) == CHOOSE i \in DOMAIN posts : posts[i].base_name = n

\* the sentence terminators
Terminators == {".", "!", "?"}
\* text t up to its earliest terminator, the terminator included
EarliestCut(t) ==
    LET hits == {i \in DOMAIN t : t[i] \in Terminators}
    IN  IF hits = {} THEN t
        ELSE SubSeq(t, 1, CHOOSE i \in hits : \A j \in hits : i <= j)
\* _heuristic_title_description has returned
TitleReturned ==
    fn.name = "_heuristic_title_description" /\ fn.pc = "returned"

\* s with its white space squeezed: a white-space character stays, as one
\* space, only where it stands directly before a character that is not
\* white space and behind another such character
RECURSIVE SqueezeFrom(_, _, _)
SqueezeFrom(s, i, acc) ==
    IF i > Len(s) THEN acc
    ELSE IF ~IsSpace(s[i]) THEN SqueezeFrom(s, i + 1, Append(acc, s[i]))
    ELSE IF acc # <<>> /\ i < Len(s) /\ ~IsSpace(s[i + 1])
    THEN SqueezeFrom(s, i + 1, Append(acc, " "))
    ELSE SqueezeFrom(s, i + 1, acc)
Squeezed(s) == SqueezeFrom(s, 1, <<>>)
\* s holds a hashtag: a "#" directly followed by a letter
HasHashtag(s) ==
    \E i \in DOMAIN s : s[i] = "#" /\ i < Len(s) /\ s[i + 1] = "a"

\* the loop a behaviour runs has ended: upload_video has returned or raised,
\* wait_for_hd_processing and upload_video behind it have returned,
\* process_profile has returned
LoopEnded ==
    \/ InUploadVideo /\ call.pc \in {"returned", "raised"}
    \/ InWait /\ hd.pc = "done" /\ call.pc = "returned"
    \/ InProcessProfile /\ fn.pc = "returned"

(***************************************************************************)
(* C1 (as claimed): the uploads recorded in one invocation of the program  *)
(* never exceed MAX_UPLOADS_PER_DAY.                                       *)
(***************************************************************************)
C1_UploadsWithinCap == run_uploads <= MAX_UPLOADS_PER_DAY

(***************************************************************************)
(* C2 (as claimed): when process_profile returns with the upload counter   *)
(* at the cap, every post of the profile that the Duplicate Guard does not *)
(* skip has its metadata file.                                             *)
(***************************************************************************)
C2_MetadataAfterCap ==
    (ProfileReturned /\ uploads_this_run >= MAX_UPLOADS_PER_DAY)
        => \A j \in Posts : MetadataOrSkipped(j)

(***************************************************************************)
(* C3 (as claimed): once the halt flag is set, upload_video is not invoked *)
(* again in the invocation, and when process_profile returns every post    *)
(* that the Duplicate Guard does not skip has its metadata file.           *)
(***************************************************************************)
C3_HaltKeepsMetadata ==
    upload_limit_reached
        => /\ ~engine_after_halt
           /\ ProfileReturned => \A j \in Posts : MetadataOrSkipped(j)

(***************************************************************************)
(* C4: a quota response is the last response of its call: the call has     *)
(* returned a failure result, no attempt and no backoff sleep follow it.   *)
(***************************************************************************)
C4_QuotaEndsCall ==
    \A i \in 1..Len(call.log) :
        QuotaResponse(call.log[i])
            => /\ i = Len(call.log)
               /\ ReturnedFailure
               /\ Len(call.sleeps) = i - 1
C4_Witness ==
    /\ Len(call.log) = 2
    /\ QuotaResponse(call.log[2])
    /\ call.pc = "returned"

(***************************************************************************)
(* C5 (as claimed): whenever the last upload_video call of the invocation  *)
(* ended on a quota response, the halt flag is set.                        *)
(***************************************************************************)
C5_QuotaSetsHalt ==
    (r_pc # "shell" /\ call.pc = "returned" /\ Len(call.log) > 0
        /\ QuotaResponse(LastResponse))
        => upload_limit_reached

(***************************************************************************)
(* C6: while all responses of a call are transient failures, there are at  *)
(* most 3 attempts, the sleeps are 5 s before attempt 2 and 15 s before    *)
(* attempt 3, none before attempt 1, and after the third failure the call  *)
(* has returned a failure result.                                          *)
(***************************************************************************)
C6_TransientRetries ==
    (\A i \in 1..Len(call.log) : Transient(call.log[i]))
        => /\ Len(call.log) <= 3
           /\ Len(call.log) >= 1 =>
                 /\ call.pc \in {"loop", "returned"}
                 /\ call.sleeps = SubSeq(<<5, 15>>, 1, Len(call.log) - 1)
           /\ Len(call.log) = 0 => call.sleeps = <<>>
           /\ Len(call.log) = 3 => ReturnedFailure
           /\ Len(call.log) \in 1..2 => call.pc = "loop"
C6_Witness ==
    /\ Len(call.log) = 3
    /\ \A i \in 1..3 : Transient(call.log[i])
    /\ call.pc = "returned"

(***************************************************************************)
(* C7: transient errors on attempts 1 and 2 and a final response with an   *)
(* id on attempt 3 give a success result with retries = 2 and that id.     *)
(***************************************************************************)
C7_SuccessOnThirdAttempt ==
    (/\ Len(call.log) = 3
     /\ Transient(call.log[1])
     /\ Transient(call.log[2])
     /\ WithId(call.log[3]))
        => /\ call.pc = "returned"
           /\ call.result.success
           /\ call.result.retries = 2
           /\ call.video_id = call.log[3].id
C7_Witness ==
    /\ Len(call.log) = 3
    /\ Transient(call.log[1])
    /\ Transient(call.log[2])
    /\ WithId(call.log[3])
    /\ call.log[3].id = 2

(***************************************************************************)
(* C8: an upload_video call that meets a 400 without a quota text ends on  *)
(* it with a failure result, and process_profile leaves the halt flag, the *)
(* metadata and the upload counter as they are and goes on to the next     *)
(* media file.                                                             *)
(***************************************************************************)
C8_BadRequestScopedToFile ==
    [][(/\ engine_calls' = engine_calls + 1
        /\ \E i \in 1..Len(call'.log) : BadRequest(call'.log[i]))
          => /\ BadRequest(call'.log[Len(call'.log)])
             /\ \A i \in 1..(Len(call'.log) - 1) : ~BadRequest(call'.log[i])
             /\ call'.pc = "returned"
             /\ ~call'.result.success
             /\ call'.video_id = NoId
             /\ upload_limit_reached' = upload_limit_reached
             /\ meta' = meta
             /\ dirs' = dirs
             /\ uploads_this_run' = uploads_this_run
             /\ k' = k
             /\ m' = m + 1
             /\ r_pc' = "media"]_vars
C8_Witness ==
    /\ r_pc = "media"
    /\ m = 2
    /\ call.pc = "returned"
    /\ Len(call.log) = 1
    /\ BadRequest(call.log[1])
    /\ ~upload_limit_reached
    /\ meta.uploads = <<>>

(***************************************************************************)
(* C9 (as claimed): a final response without an identifier is the last     *)
(* response of its call (no retry) and the call does not succeed.          *)
(***************************************************************************)
C9_NoRetryOnMissingId ==
    \A i \in 1..Len(call.log) :
        MissingId(call.log[i])
            => i = Len(call.log) /\ ~call.result.success

(***************************************************************************)
(* C11: a call with neither a service nor a client secrets file does       *)
(* nothing but raise: it makes no attempt, sleeps never and returns no     *)
(* result, in dry-run mode too.                                            *)
(***************************************************************************)
C11_ConfigErrorRaised ==
    (~args.service /\ ~args.client_secrets_file)
        => /\ call.pc \in {"entry", "raised"}
           /\ call.log = <<>>
           /\ call.sleeps = <<>>
           /\ call.result = ResultInit
           /\ call.video_id = NoId
C11_Witness ==
    /\ ~args.service /\ ~args.client_secrets_file
    /\ args.test_mode
    /\ call.pc = "raised"

(***************************************************************************)
(* C12: a post whose persisted metadata marks it uploaded is skipped: no   *)
(* step changes its metadata file, and upload_video is never invoked for   *)
(* a file of it.                                                           *)
(***************************************************************************)
C12_UploadedPostSkipped ==
    [][ByProgram =>
          /\ \A u \in Usernames, j \in Posts :
                 MarkedUploaded(u, j) => dirs'[u][j] = dirs[u][j]
          /\ EngineInvoked => ~MarkedUploaded(username, k)]_vars
C12_Witness ==
    /\ last = "SkipUploaded"
    /\ cli.upload_videos /\ ~cli.test_mode
    /\ MarkedUploaded(username, k - 1)
    /\ Unlisted(username, k - 1) # {}

(***************************************************************************)
(* C13: while another metadata record of the profile directory has the     *)
(* title or the description generated for a post, no step writes that      *)
(* post's metadata file and upload_video is not invoked for a file of it.  *)
(***************************************************************************)
C13_DuplicateSkipped ==
    [][ByProgram =>
          /\ \A u \in Usernames, j \in Posts :
                 OtherRecordMatches(u, j) => dirs'[u][j] = dirs[u][j]
          /\ EngineInvoked => ~OtherRecordMatches(username, k)]_vars
C13_Witness ==
    /\ last = "SkipDuplicate"
    /\ cli.upload_videos /\ ~cli.test_mode
    /\ OtherRecordMatches(username, k - 1)
    /\ ~dirs[username][k - 1].exists
    /\ GenDescription(username, k - 1) # GenDescription(username, 1)

C15_ListsOnlyGrow ==
    [][ByProgram =>
          \A u \in Usernames, j \in Posts :
              (dirs[u][j].exists /\ dirs[u][j].valid)
                  => /\ dirs'[u][j].exists
                     /\ dirs'[u][j].valid
                     /\ IsPrefix(dirs[u][j].video_ids, dirs'[u][j].video_ids)
                     /\ IsPrefix(dirs[u][j].uploads, dirs'[u][j].uploads)]_vars
C15_Witness ==
    /\ last = "FinishPost"
    /\ ~cli.upload_videos
    /\ existing_meta.exists
    /\ existing_meta.uploads # <<>>
    /\ dirs[username][k - 1].uploads = existing_meta.uploads
    /\ dirs[username][k - 1].video_ids = existing_meta.video_ids
    /\ dirs[username][k - 1] # existing_meta

(***************************************************************************)
(* C16: every metadata file on disk that marks uploaded = true has a       *)
(* non-empty video_ids list, incremental and final writes alike.           *)
(***************************************************************************)
C16_UploadedHasIds ==
    \A u \in Usernames, j \in Posts :
        (dirs[u][j].exists /\ dirs[u][j].uploaded)
            => dirs[u][j].video_ids # <<>>
C16_Witness ==
    /\ last = "FinishPost"
    /\ dirs[username][k - 1].uploaded
    /\ Len(dirs[username][k - 1].video_ids) = 1
    /\ Cardinality(invoked) = 2

(***************************************************************************)
(* C17 (as claimed): the metadata persisted at the end of a post's         *)
(* processing has uploaded = true if and only if its video_ids list is     *)
(* non-empty, whether or not an upload was attempted for the post.         *)
(***************************************************************************)
C17_UploadedIffIds ==
    last = "FinishPost"
        => (dirs[username][k - 1].uploaded
               <=> dirs[username][k - 1].video_ids # <<>>)

(***************************************************************************)
(* C18: once an upload is recorded in meta, the post's metadata file holds *)
(* its video id and file name: at the spacing sleep, at the next file of   *)
(* the media loop and at the end of the post; the write does not wait for  *)
(* the remaining files.                                                    *)
(***************************************************************************)
C18_WrittenAfterEachUpload ==
    (r_pc \in {"sleep", "media", "post_end"}
        /\ Len(meta.uploads) > Len(existing_meta.uploads))
        => /\ dirs[username][k].exists
           /\ dirs[username][k].video_ids = meta.video_ids
           /\ dirs[username][k].uploads = meta.uploads
C18_Witness ==
    /\ r_pc = "sleep"
    /\ last = "MediaUpload"
    /\ m <= MediaPerPost
    /\ existing_meta.uploads = <<>>
    /\ dirs[username][k].uploads = <<m - 1>>
    /\ dirs[username][k].video_ids = <<call.video_id>>
    /\ ~dirs[username][k].uploaded

(***************************************************************************)
(* C19 (as claimed): when upload_video is invoked and the invocation       *)
(* before it in the same run of process_profile was a recorded upload, one *)
(* spacing sleep of 60 s lies between the two.                             *)
(***************************************************************************)
C19_UploadsSpaced ==
    [][(/\ EngineInvoked
        /\ uploads_this_run > 0
        /\ call.pc = "returned"
        /\ call.result.success
        /\ call.video_id \notin {NoId, TEST_MODE_ID})
          => slept = UPLOAD_SPACING_SECONDS]_vars

(***************************************************************************)
(* C20 (as claimed): when the process has ended, by termination too, every *)
(* media file whose transfer the platform completed is listed in uploads   *)
(* of its post's metadata file.                                            *)
(***************************************************************************)
C20_CompletedUploadsRecorded ==
    r_pc = "shell"
        => \A t \in platform : Listed(t[3], dirs[t[1]][t[2]])

(***************************************************************************)
(* C21: at the head of a post whose own metadata file cannot be read, and  *)
(* which no readable other record matches, the post is taken up as a first *)
(* encounter: nothing is loaded and the regenerated record is the one of a *)
(* new post; and unreadable files of other posts never make the duplicate  *)
(* scan skip a post.                                                       *)
(***************************************************************************)
C21_UnreadableAsUnseen ==
    [][(AtPostHead /\ last' # "Terminate")
          => /\ (UnreadableFile(username, k)
                    /\ ~OtherRecordMatches(username, k))
                   => /\ last' = "BeginPost"
                      /\ k' = k
                      /\ existing_meta' = NoFile
                      /\ meta' = FirstEncounter(username, k, calls)
             /\ ((\E i \in Posts \ {k} : UnreadableFile(username, i))
                    /\ ~MarkedUploaded(username, k)
                    /\ ~OtherRecordMatches(username, k))
                   => last' = "BeginPost"]_vars
C21_Witness ==
    /\ last = "BeginPost"
    /\ cli.upload_videos /\ ~cli.test_mode
    /\ UnreadableFile(username, k)
    /\ \E v \in Media : <<username, k, v>> \in platform
    /\ meta = FirstEncounter(username, k, calls)

(***************************************************************************)
(* C22: for a video file not yet uploaded, upload_video is invoked once,   *)
(* with the watermarked copy when a watermark is requested and the         *)
(* transform returned, and with the original file when the transform       *)
(* raised (or none was requested); the name recorded in uploads is the     *)
(* name of the original file in every case.                                *)
(***************************************************************************)
C22_WatermarkFallback ==
    (iter.pc = "next" /\ IsVideo(iter.k, iter.m)
        /\ \A i \in DOMAIN iter.prior : iter.prior[i] # iter.m)
        => /\ Len(iter.passed) = 1
           /\ (iter.watermark_image /\ iter.transform = "ok")
                 => iter.passed[1] = iter.m + MediaPerPost + 1
           /\ (~iter.watermark_image \/ iter.transform # "ok")
                 => iter.passed[1] = iter.m
           /\ \/ iter.meta.uploads = iter.prior
              \/ iter.meta.uploads = Append(iter.prior, iter.m)
C22_Witness ==
    /\ iter.pc = "next"
    /\ iter.watermark_image
    /\ iter.transform = "no_video"
    /\ iter.passed = <<iter.m>>
    /\ iter.prior = <<1>>
    /\ iter.meta.uploads = <<1, iter.m>>

C24_PollErrorsTolerated ==
    /\ hd.lastpoll.kind = "error"
          => \/ hd.pc \in {"sleep", "check", "poll"}
             \/ hd.by_timeout
    /\ (hd.lastpoll.kind = "error" /\ hd.pc = "poll") => hd.gap = 30
    /\ (hd.polled /\ hd.all_errors /\ hd.pc \in {"returned", "done"})
          => hd.by_timeout /\ hd.now > 3600
    /\ hd.pc = "done"
          => /\ call.pc = "returned"
             /\ call.result.success
             /\ call.result.hd_ready = hd.result
             /\ call.video_id = 1
             /\ Len(call.log) = 1
C24_Witness ==
    /\ hd.pc = "done"
    /\ hd.any_error
    /\ hd.result
    /\ call.result.success
    /\ call.result.hd_ready

C26_MergeKeepsRecord ==
    [][ByProgram
         => \A u \in Usernames, j \in Posts :
               (dirs[u][j].exists /\ dirs[u][j].valid
                  /\ dirs'[u][j] # dirs[u][j])
                 => /\ dirs'[u][j].first_seen = dirs[u][j].first_seen
                    /\ dirs[u][j].upload_details
                          \subseteq dirs'[u][j].upload_details
                    /\ IsPrefix(dirs[u][j].video_ids, dirs'[u][j].video_ids)
                    /\ IsPrefix(dirs[u][j].uploads, dirs'[u][j].uploads)]_vars

(***************************************************************************)
(* C27: the list _collect_posts returns holds each post of the listing     *)
(* once; the posts with a timestamp come in ascending order of timestamp   *)
(* and before every post without one; posts without a timestamp, and posts *)
(* with equal timestamps, are in the order of the file listing.            *)
(***************************************************************************)
C27_PostsOrdered ==
    (fn.name = "_collect_posts" /\ fn.pc = "returned")
        => /\ Len(fn.out) = Len(fn.files)
           /\ \A i \in DOMAIN fn.files :
                 \E j \in DOMAIN fn.out : fn.out[j].base_name = fn.files[i]
           /\ \A i, j \in DOMAIN fn.out :
                 i < j
                   => /\ fn.out[i].timestamp.none => fn.out[j].timestamp.none
                      /\ (~fn.out[i].timestamp.none /\ ~fn.out[j].timestamp.none)
                            => fn.out[i].timestamp.t <= fn.out[j].timestamp.t
                      /\ fn.out[i].timestamp = fn.out[j].timestamp
                            => PlaceOf(fn.out[i].base_name, fn.posts)
                                 < PlaceOf(fn.out[j].base_name, fn.posts)
C27_Witness ==
    /\ fn.name = "_collect_posts"
    /\ fn.pc = "returned"
    /\ fn.files = <<5, 4, 3, 1, 2>>
    /\ fn.out = <<PostInfo(2), PostInfo(4), PostInfo(1), PostInfo(5),
                  PostInfo(3)>>

(***************************************************************************)
(* C28 (as claimed): for a caption that is not empty after cleaning, the   *)
(* title is the cleaned caption without its hashtags, cut behind the       *)
(* earliest ".", "!" or "?" and truncated to 80 characters; no terminator  *)
(* stands before the last character of the title.                          *)
(***************************************************************************)
C28_TitleCutAtEarliest ==
    (TitleReturned /\ fn.description # <<>>)
        => /\ fn.title = Strip(Truncate(Strip(EarliestCut(
                               StripTags(fn.description))), 80))
           /\ \A i \in 1..(Len(fn.title) - 1) : fn.title[i] \notin Terminators

C30_PositionOffsets ==
    (fn.name = "_get_position_offsets" /\ fn.pc = "returned")
        => LET W == fn.video_size[1]
               H == fn.video_size[2]
               w == fn.wm_size[1]
               h == fn.wm_size[2]
               mg == fn.margin
           IN  /\ fn.position \in {"top-left", "TOP-LEFT"}
                     => fn.out = <<mg, mg>>
               /\ fn.position \in {"top-right", "Top-Right"}
                     => fn.out = <<W - w - mg, mg>>
               /\ fn.position \in {"bottom-left", "Bottom-Left"}
                     => fn.out = <<mg, H - h - mg>>
               /\ fn.position \in {"bottom-right", "BOTTOM-RIGHT", "center", ""}
                     => fn.out = <<W - w - mg, H - h - mg>>
C30_Witness ==
    /\ fn.name = "_get_position_offsets"
    /\ fn.pc = "returned"
    /\ fn.video_size = <<1000, 500>>
    /\ fn.wm_size = <<200, 100>>
    /\ fn.margin = 10
    /\ fn.position = "bottom-right"
    /\ fn.out = <<790, 390>>

(***************************************************************************)
(* C31 (as claimed): when process_profile has run with uploads disabled,   *)
(* it has invoked upload_video not at all, and for every post it did not   *)
(* pass over it has written the file <base_name>_meta.json in the profile  *)
(* directory, holding the generated title and description and uploaded     *)
(* false.                                                                  *)
(***************************************************************************)
C31_MetadataOnlyFlat ==
    (fn.name = "process_profile" /\ fn.pc = "returned" /\ ~fn.upload_videos)
        => /\ fn.engine_calls = 0
           /\ \A j \in Posts \ fn.skipped :
                 /\ [layout |-> "flat", dir |-> 0, file |-> j] \in fn.written
                 /\ fn.dir[j].exists /\ fn.dir[j].valid
                 /\ fn.dir[j].title = GenTitle(fn.username, j)
                 /\ fn.dir[j].description = GenDescription(fn.username, j)
                 /\ ~fn.dir[j].uploaded

(***************************************************************************)
(* C31 (amended): when process_profile has run with uploads disabled, it   *)
(* has invoked upload_video not at all, and for every post it did not pass *)
(* over it has written the metadata file of the post, holding the          *)
(* generated title and description and uploaded false: the file            *)
(* <base_name>_meta.json in the profile directory, or, when per-post       *)
(* subdirectories are selected, meta.json in the directory of the post.    *)
(***************************************************************************)
C31_MetadataOnly ==
    (fn.name = "process_profile" /\ fn.pc = "returned" /\ ~fn.upload_videos)
        => /\ fn.engine_calls = 0
           /\ \A j \in Posts \ fn.skipped :
                 /\ fn.per_post_subdirs
                       => [layout |-> "nested", dir |-> j, file |-> 0]
                            \in fn.written
                 /\ ~fn.per_post_subdirs
                       => [layout |-> "flat", dir |-> 0, file |-> j]
                            \in fn.written
                 /\ fn.dir[j].exists /\ fn.dir[j].valid
                 /\ fn.dir[j].title = GenTitle(fn.username, j)
                 /\ fn.dir[j].description = GenDescription(fn.username, j)
                 /\ ~fn.dir[j].uploaded
C31_Witness ==
    /\ fn.name = "process_profile"
    /\ fn.pc = "returned"
    /\ ~fn.upload_videos
    /\ fn.per_post_subdirs
    /\ fn.skipped = {2}
    /\ fn.prior[1].video_ids # <<>>
    /\ fn.dir[1].video_ids # <<>>
    /\ ~fn.prior[PostsPerProfile].exists
    /\ fn.dir[PostsPerProfile].exists

C34_RetriesCountAttempts ==
    (call.pc = "returned" /\ ~call.result.test_only)
        => call.result.retries = Len(call.log)

C35_IdsMatchUploads ==
    [][dirs' # dirs
         => \A u \in Usernames, j \in Posts :
               (dirs'[u][j] # dirs[u][j] /\ dirs'[u][j].valid)
                 => /\ Len(dirs'[u][j].video_ids) = Len(dirs'[u][j].uploads)
                    /\ \A a, b \in DOMAIN dirs'[u][j].uploads :
                          dirs'[u][j].uploads[a] = dirs'[u][j].uploads[b]
                            => a = b
                    /\ last' = "MediaUpload"
                          => /\ dirs'[u][j].video_ids =
                                  Append(meta.video_ids, call'.video_id)
                             /\ dirs'[u][j].uploads = Append(meta.uploads, m)]_vars
C35_Witness ==
    /\ calls = 2
    /\ faults = 1
    /\ r_pc = "post"
    /\ k > 1
    /\ Len(dirs[username][k - 1].uploads) = MediaPerPost
    /\ Len(existing_meta.uploads) = 1

(***************************************************************************)
(* C36 (as claimed): in every metadata record on disk, every file name     *)
(* listed in uploads has an entry in upload_details, and the id of that    *)
(* entry is one of the record's video_ids.                                 *)
(***************************************************************************)
C36_UploadsHaveDetails ==
    \A u \in Usernames, j \in Posts :
        (dirs[u][j].exists /\ dirs[u][j].valid)
          => \A a \in DOMAIN dirs[u][j].uploads :
                \E d \in dirs[u][j].upload_details :
                    /\ d.name = dirs[u][j].uploads[a]
                    /\ \E b \in DOMAIN dirs[u][j].video_ids :
                          dirs[u][j].video_ids[b] = d.video_id

(***************************************************************************)
(* C37 (as claimed): when a run with uploads on comes to a post that is no *)
(* duplicate and whose record, written at the end of the post by an        *)
(* earlier run, lists some but not all of its video files, it enters the   *)
(* media loop of the post, where the files not yet listed are uploaded.    *)
(***************************************************************************)
C37_PartialPostResumed ==
    [][(/\ AtPostHead
        /\ cli.upload_videos /\ ~cli.test_mode /\ ~upload_limit_reached
        /\ MarkedUploaded(username, k)
        /\ dirs[username][k].uploads # <<>>
        /\ Unlisted(username, k) # {}
        /\ ~OtherRecordMatches(username, k)
        /\ ByProgram /\ last' # "Terminate")
         => last' = "BeginPost" /\ r_pc' = "media"]_vars

(***************************************************************************)
(* C38 (as claimed): with a watermark image, over any sequence of runs,    *)
(* the media files a fetch collects for a post are the files the post was  *)
(* downloaded with; no watermarked copy is watermarked again; upload_video *)
(* is invoked only for files the post was downloaded with, and at most one *)
(* upload is recorded per such file.                                       *)
(***************************************************************************)
C38_WatermarkCopyNotCollected ==
    (fn.name = "process_post" /\ fn.watermark_image)
        => /\ \A i \in DOMAIN fn.media : WmCount(fn.media[i]) = 0
           /\ \A f \in fn.files : WmCount(f) <= 1
           /\ \A i \in DOMAIN fn.invoked : WmCount(fn.invoked[i].media) = 0
           /\ \A i, j \in DOMAIN fn.invoked :
                 (/\ fn.invoked[i].recorded /\ fn.invoked[j].recorded
                  /\ OriginalOf(fn.invoked[i].media)
                        = OriginalOf(fn.invoked[j].media))
                   => i = j

C10_SuccessHasId ==
    (call.pc = "returned" /\ call.result.success) => call.video_id # NoId
C10_Witness ==
    /\ call.pc = "returned"
    /\ call.result.success
    /\ call.result.retries = 2
    /\ MissingId(call.log[1])

====
